---- MODULE Spec2Model ----
(***************************************************************************)
(* A model of bibtex-autocomplete's zbMATH lookup (the query passes, the   *)
(* LaTeX-stripped-title retry of ZbMathLookup.query) and of the merge of   *)
(* the lookups' results into one entry.                                    *)
(*                                                                         *)
(* Strings are sequences of one-character strings, so that formatting and  *)
(* stripping are computed and not assumed.  A Python Optional is a         *)
(* sequence of length 0 (None) or 1 (the value).                           *)
(***************************************************************************)
EXTENDS Integers, Sequences, FiniteSets, TLC

\* ------------------------------------------------------------------ bounds

\* The number of query() calls made on one ZbMathLookup instance.
MaxCalls == 2

\* The largest number of results one zbMATH response holds.
MaxResults == 2

\* ------------------------------------------------------------- Optional

None == << >>

Some(x) == << x >>

IsNone(o) == o = << >>

Val(o) == o[1]

\* ---------------------------------------------------------------- strings

UpperChars == <<"A","B","C","D","E","F","G","H","I","J","K","L","M",
                "N","O","P","Q","R","S","T","U","V","W","X","Y","Z">>

LowerChars == <<"a","b","c","d","e","f","g","h","i","j","k","l","m",
                "n","o","p","q","r","s","t","u","v","w","x","y","z">>

\* str.lower(), one character
LowerChar(c) ==
  IF \E i \in 1..26 : UpperChars[i] = c
  THEN LowerChars[CHOOSE i \in 1..26 : UpperChars[i] = c]
  ELSE c

\* str.lower()
Lower(s) == [i \in 1..Len(s) |-> LowerChar(s[i])]

\* str.startswith(prefix)
StartsWith(s, prefix) ==
  /\ Len(prefix) <= Len(s)
  /\ \A i \in 1..Len(prefix) : s[i] = prefix[i]

\* s[n:]
DropFirst(s, n) == IF n >= Len(s) THEN << >> ELSE SubSeq(s, n + 1, Len(s))

\* The characters Python's \s and str.strip() take for whitespace, among
\* those the model's strings hold.
IsSpace(c) == c \in {" ", "\t", "\n"}

\* str.replace(old, new) for a single character old and a string new
RECURSIVE ReplaceChar(_, _, _)
ReplaceChar(s, old, new) ==
  IF s = << >> THEN << >>
  ELSE (IF Head(s) = old THEN new ELSE << Head(s) >>)
         \o ReplaceChar(Tail(s), old, new)

\* str.split(sep) for a single character sep: a sequence of strings, always
\* of length 1 + the number of occurrences of sep
RECURSIVE SplitChar(_, _)
SplitChar(s, sep) ==
  IF s = << >> THEN << << >> >>
  ELSE LET rest == SplitChar(Tail(s), sep)
       IN  IF Head(s) = sep
           THEN << << >> >> \o rest
           ELSE << << Head(s) >> \o Head(rest) >> \o Tail(rest)

\* "".join(parts)
RECURSIVE Concat(_)
Concat(parts) ==
  IF parts = << >> THEN << >> ELSE Head(parts) \o Concat(Tail(parts))

\* sep.join(parts)
RECURSIVE Join(_, _)
Join(sep, parts) ==
  IF parts = << >> THEN << >>
  ELSE IF Len(parts) = 1 THEN Head(parts)
  ELSE Head(parts) \o sep \o Join(sep, Tail(parts))

\* WHITESPACE_RE.sub(" ", s): every maximal run of whitespace becomes one " "
RECURSIVE CollapseSpaces(_)
CollapseSpaces(s) ==
  IF s = << >> THEN << >>
  ELSE IF IsSpace(Head(s))
       THEN IF Len(s) > 1 /\ IsSpace(s[2])
            THEN CollapseSpaces(Tail(s))
            ELSE << " " >> \o CollapseSpaces(Tail(s))
       ELSE << Head(s) >> \o CollapseSpaces(Tail(s))

RECURSIVE LStrip(_)
LStrip(s) ==
  IF s # << >> /\ IsSpace(Head(s)) THEN LStrip(Tail(s)) ELSE s

RECURSIVE RStrip(_)
RStrip(s) ==
  IF s # << >> /\ IsSpace(s[Len(s)])
  THEN RStrip(SubSeq(s, 1, Len(s) - 1))
  ELSE s

\* str.strip()
Strip(s) == LStrip(RStrip(s))

\* ------------------------------------------------------- strip_latex_code

LATEX_COMMANDS_TO_REMOVE ==
  {
      <<"t", "e", "x", "t", "b", "f">>,
      <<"t", "e", "x", "t", "i", "t">>,
      <<"t", "e", "x", "t", "s", "c">>,
      <<"t", "e", "x", "t", "t", "t">>,
      <<"t", "e", "x", "t", "s", "f">>,
      <<"t", "e", "x", "t", "n", "o", "r", "m", "a", "l">>,
      <<"t", "e", "x", "t", "r", "m">>,
      <<"t", "e", "x", "t", "s", "l">>,
      <<"t", "e", "x", "t", "u", "p">>,
      <<"e", "m", "p", "h">>,
      <<"m", "a", "t", "h", "b", "f">>,
      <<"m", "a", "t", "h", "r", "m">>,
      <<"m", "a", "t", "h", "s", "f">>,
      <<"m", "a", "t", "h", "b", "b">>,
      <<"m", "a", "t", "h", "c", "a", "l">>,
      <<"m", "a", "t", "h", "s", "c", "r">>,
      <<"m", "a", "t", "h", "f", "r", "a", "k">>,
      <<"m", "a", "t", "h", "i", "t">>,
      <<"b", "o", "l", "d", "s", "y", "m", "b", "o", "l">>,
      <<"o", "p", "e", "r", "a", "t", "o", "r", "n", "a", "m", "e">>,
      <<"u", "n", "d", "e", "r", "l", "i", "n", "e">>,
      <<"o", "v", "e", "r", "l", "i", "n", "e">>,
      <<"w", "i", "d", "e", "h", "a", "t">>,
      <<"w", "i", "d", "e", "t", "i", "l", "d", "e">>,
      <<"h", "a", "t">>,
      <<"t", "i", "l", "d", "e">>,
      <<"b", "a", "r">>,
      <<"v", "e", "c">>,
      <<"d", "o", "t">>,
      <<"d", "d", "o", "t">>,
      <<"b", "r", "e", "v", "e">>,
      <<"c", "h", "e", "c", "k">>,
      <<"a", "c", "u", "t", "e">>,
      <<"g", "r", "a", "v", "e">>
  }

\* The commands the lowered segment starts with (the loop of lines 74-77
\* takes the first one its iteration over the set meets).
MatchingCommands(segment) ==
  LET lower == Lower(segment)
  IN  { command \in LATEX_COMMANDS_TO_REMOVE : StartsWith(lower, command) }

\* One segment after a backslash, its leading command removed
StripSegment(segment) ==
  LET found == MatchingCommands(segment)
  IN  IF found = {} THEN segment
      ELSE DropFirst(segment, Len(CHOOSE command \in found : TRUE))

strip_latex_code_WithoutStrip(text) ==
  LET without_math == ReplaceChar(text, "$", << " " >>)
      parts        == SplitChar(without_math, "\\")
      cleaned      == IF Len(parts) = 1 THEN without_math
                      ELSE Concat(<< parts[1] >> \o
                             [i \in 1..(Len(parts) - 1) |-> StripSegment(parts[i + 1])])
      no_braces    == ReplaceChar(ReplaceChar(cleaned, "{", << >>), "}", << >>)
  IN  CollapseSpaces(no_braces)

strip_latex_code(text) ==
  LET without_math == ReplaceChar(text, "$", << " " >>)
      parts        == SplitChar(without_math, "\\")
      cleaned      == IF Len(parts) = 1 THEN without_math
                      ELSE Concat(<< parts[1] >> \o
                             [i \in 1..(Len(parts) - 1) |-> StripSegment(parts[i + 1])])
      no_braces    == ReplaceChar(ReplaceChar(cleaned, "{", << >>), "}", << >>)
  IN  Strip(CollapseSpaces(no_braces))

\* ------------------------------------------------------------ the state

VARIABLES
  \* ZbMathLookup: the entry looked up and the query scopes of the run
  entry, query_doi, query_author_title, query_title,
  \* ZbMathLookup.__init__
  use_latex_stripped_title, latex_retry_attempted, latex_stripped_title,
  \* the parameters of the next attempt: self.title, self.doi, self.authors
  title, doi, authors,
  \* self._result_count (None: the attribute is not set) and the
  \* "response-status" of get_last_query_info()
  result_count, response_status,
  \* where query() stands: "idle", in the "plain" pass or in the "retry" pass
  pc,
  \* where iter_queries stands: "start", at the yield of "doi", "author_title"
  \* or "title", or "returned" once the pass has returned
  gen,
  \* what the pass returned, and what query() returned: "None" or "entry"
  \* (ret is "raised" when query() ended with an exception)
  value, ret,
  \* the number of query() calls so far
  calls,
  \* the attempts issued by the current query() call, in order
  log,
  \* history: the retry passes entered, the call that entered the last one,
  \* the queries issued in retry passes, and whether every response so far
  \* was a success with no result
  n_retry, retry_call, n_retried, all_empty,
  \* the run: replace mode (-R), the lookups in their order of priority, the
  \* entry read from the input file
  replace, lookups, input,
  \* one thread per lookup: "running" or "done", and the result of its query
  \* once done (None: no result)
  thread, result,
  \* the lookups in the order their threads finished
  completed,
  \* the entry update_entry leaves (None until it has run)
  output,
  \* main(): the -q arguments in their order (none: << >>), where main
  \* stands ("start", "running", "exited"), the code it exits with and the
  \* entry written to the output file (None: no file)
  only_query, main, exit_code, output_file,
  \* the "hit-count" of each thread's query info, and the lines of the
  \* not-found and of the multiple-hits log files
  hits, not_found_log, multiple_hits_log,
  \* BTACBibTexWriter: the entry handed to _entry_to_bibtex, the writer's
  \* entry_source_comments, the text the serializer gave for the entry and
  \* the text _entry_to_bibtex returned (None until it has)
  db_entry, entry_source_comments, bibtex_entry, written,
  \* Dispatcher: the budget of network operations in flight, the fields each
  \* record has populated, where each record stands ("new", "dispatched",
  \* "done") and where each source's work on each record does
  concurrency_budget, populated, rec, op,
  \* whether the completed operation of a source on a record gave an
  \* accepted candidate, the operations ever started, the outcome mapping
  \* returned per record (None until it is) and the batch ("running",
  \* "complete")
  candidate, queried, outcomes, batch,
  \* strip_latex_code: the text it is given, what it returns for it, and
  \* what it returns for that (None until applied)
  strip_text, strip_once, strip_twice

qvars == << entry, query_doi, query_author_title, query_title,
            use_latex_stripped_title, latex_retry_attempted,
            latex_stripped_title, title, doi, authors, result_count,
            response_status, pc, gen, value, ret, calls, log, n_retry,
            retry_call, n_retried, all_empty >>

mvars == << replace, lookups, input, thread, result, completed, output,
            only_query, main, exit_code, output_file, hits, not_found_log,
            multiple_hits_log >>

wvars == << db_entry, entry_source_comments, bibtex_entry, written >>

dvars == << concurrency_budget, populated, rec, op, candidate, queried,
            outcomes, batch >>

svars == << strip_text, strip_once, strip_twice >>

vars == << qvars, mvars, wvars, dvars, svars >>

\* what the steps of query() leave alone, what those of a run do, and what
\* the writer does
notq == << mvars, wvars, dvars, svars >>

notm == << qvars, wvars, dvars, svars >>

notw == << qvars, mvars, dvars, svars >>

notd == << qvars, mvars, wvars, svars >>

nots == << qvars, mvars, wvars, dvars >>

\* --------------------------------------------------------------- inputs

\* Titles of the entries looked up: a plain one, ones with LaTeX that strip
\* to a different text, one that strips to nothing.
SampleTitles ==
  { << "a", "b" >>,
    << "$", "a", "$" >>,
    << "$" >>,
    << "\\", "H", "a", "t", "{", "a", "}", " ", " ", "b" >> }

SampleDois == { << "1", "0", ".", "1", "/", "x" >> }

Author(lastname, firstnames) == [lastname |-> lastname, firstnames |-> firstnames]

SampleAuthors ==
  { << Author(<< "A", "b" >>, << "H" >>), Author(<< "b", "o" >>, << >>) >> }

Optional(S) == { None } \cup { Some(x) : x \in S }

Entries ==
  [ title : Optional(SampleTitles), doi : Optional(SampleDois),
    author : Optional(SampleAuthors) ]

\* What one attempt's network query comes back with: no response at all, a
\* response that is not a success (429 stands for every status outside
\* 200..299, which query() treats alike), or a 200 with count results of
\* which the best one is accepted by the matcher or none is.
Responses ==
  [ status : { None, Some(429) }, count : { 0 }, accepted : { FALSE } ]
  \cup
  { r \in [ status : { Some(200) }, count : 0..MaxResults, accepted : BOOLEAN ] :
      r.accepted => r.count >= 1 }

\* ------------------------------------------------------- ZbMathLookup

author_search_key(author) == Lower(author.lastname)

_get_query_title ==
  IF use_latex_stripped_title THEN latex_stripped_title ELSE entry.title

\* iter_queries, lines 120-122: the DOI of the pass
PassDoi_KeepsDoi == entry.doi

PassDoi == IF use_latex_stripped_title THEN None ELSE entry.doi

\* iter_queries, lines 123-125: self.authors is assigned only when the entry
\* has authors
PassAuthors ==
  IF ~IsNone(entry.author)
  THEN Some([i \in 1..Len(Val(entry.author)) |->
               author_search_key(Val(entry.author)[i])])
  ELSE authors

At(pos, t, d, a) == [at |-> pos, title |-> t, doi |-> d, authors |-> a]

\* iter_queries from line 138
FromTitle(t, d, a) ==
  IF query_title THEN At("title", t, d, a) ELSE At("returned", t, d, a)

\* iter_queries from line 131
FromAuthorTitle_WithoutTitle(t, d, a) ==
  IF query_author_title /\ ~IsNone(a) THEN At("author_title", t, d, a)
  ELSE FromTitle(t, d, a)

\* iter_queries from line 131
FromAuthorTitle(t, d, a) ==
  IF IsNone(t) THEN At("returned", t, d, a)
  ELSE IF query_author_title /\ ~IsNone(a) THEN At("author_title", t, d, a)
  ELSE FromTitle(t, d, a)

\* iter_queries from line 127
FromDoi(t, d, a) ==
  IF query_doi /\ ~IsNone(d) THEN At("doi", t, d, a)
  ELSE FromAuthorTitle(t, d, a)

\* iter_queries run from where it stands to its next yield (or to its end):
\* the place it stops at and self.title, self.doi, self.authors there
iter_queries ==
  IF gen = "start" THEN FromDoi(_get_query_title, PassDoi, PassAuthors)
  ELSE IF gen = "doi" THEN FromAuthorTitle(title, None, authors)
  ELSE IF gen = "author_title" THEN FromTitle(title, doi, None)
  ELSE At("returned", title, doi, authors)

DoiPrefix == << "d", "o", "i", ":" >>

Quote == << "\"" >>

\* get_params()["search_string"] for the given self.doi, self.title and
\* self.authors; raised: the ValueError of line 151
get_params(d, t, a) ==
  IF ~IsNone(d) THEN [raised |-> FALSE, search |-> DoiPrefix \o Val(d)]
  ELSE IF IsNone(t) THEN [raised |-> TRUE, search |-> << >>]
  ELSE [raised |-> FALSE,
        search |-> Quote \o Val(t) \o Quote \o
                   (IF ~IsNone(a) /\ Val(a) # << >>
                    THEN << " " >> \o Join(<< " " >>, Val(a)) ELSE << >>)]

\* _title_without_latex
TitleUnusable_IgnoresEqual(stripped, original) == stripped = << >>

TitleUnusable(stripped, original) == stripped = << >> \/ stripped = original

_title_without_latex ==
  IF IsNone(entry.title) THEN None
  ELSE LET stripped == strip_latex_code(Val(entry.title))
       IN  IF TitleUnusable(stripped, Val(entry.title)) THEN None
           ELSE Some(stripped)

\* query, line 253
ReturnsPlainResult_IgnoresFlag == value # "None"

ReturnsPlainResult == value # "None" \/ latex_retry_attempted

\* query, line 258
StatusIsSuccess_AnyInt == ~IsNone(response_status)

StatusIsSuccess ==
  ~IsNone(response_status) /\ 200 <= Val(response_status) /\ Val(response_status) < 300

\* query, line 260: getattr(self, "_last_result_count", 0).  Nothing assigns
\* _last_result_count (get_results assigns _result_count), so the default is
\* what is read.
last_result_count == 0

\* get_results, line 166
CountAfter(resp) == IF resp.status = Some(200) THEN Some(resp.count) ELSE result_count

\* -------------------------------------------------- ZbMathLookup.query

InitQuery ==
  /\ entry \in Entries
  /\ query_doi \in BOOLEAN
  /\ query_author_title \in BOOLEAN
  /\ query_title \in BOOLEAN
  /\ use_latex_stripped_title = FALSE
  /\ latex_retry_attempted = FALSE
  /\ latex_stripped_title = None
  /\ title = None
  /\ doi = None
  /\ authors = None
  /\ result_count = None
  /\ response_status = None
  /\ pc = "idle"
  /\ gen = "returned"
  /\ value = "None"
  /\ ret = "None"
  /\ calls = 0
  /\ log = << >>
  /\ n_retry = 0
  /\ retry_call = 0
  /\ n_retried = 0
  /\ all_empty = TRUE

\* query() is called: the plain pass begins.
Call ==
  /\ pc = "idle"
  /\ calls < MaxCalls
  /\ calls' = calls + 1
  /\ pc' = "plain"
  /\ gen' = "start"
  /\ value' = "None"
  /\ log' = << >>
  /\ UNCHANGED << entry, query_doi, query_author_title, query_title,
                  use_latex_stripped_title, latex_retry_attempted,
                  latex_stripped_title, title, doi, authors, result_count,
                  response_status, ret, n_retry, retry_call, n_retried,
                  all_empty >>
  /\ UNCHANGED notq

\* One turn of the pass's loop over iter_queries(): the generator runs to its
\* next yield and the attempt is issued with the parameters set there.  The
\* pass returns the entry of an accepted result; after a response that is
\* not a success it goes on to the next attempt or gives up (halt).
Attempt ==
  /\ pc \in { "plain", "retry" }
  /\ gen # "returned"
  /\ LET y == iter_queries
         p == get_params(y.doi, y.title, y.authors)
     IN  /\ y.at # "returned"
         /\ ~p.raised
         /\ \E resp \in Responses, halt \in BOOLEAN :
              /\ title' = y.title
              /\ doi' = y.doi
              /\ authors' = y.authors
              /\ log' = Append(log, [pass |-> pc, mode |-> y.at, doi |-> y.doi,
                                     title |-> y.title, authors |-> y.authors,
                                     search |-> p.search])
              /\ response_status' = resp.status
              /\ result_count' = CountAfter(resp)
              /\ value' = IF resp.accepted THEN "entry" ELSE "None"
              /\ gen' = IF resp.accepted \/ (resp.status # Some(200) /\ halt)
                        THEN "returned" ELSE y.at
              /\ n_retried' = IF pc = "retry" THEN n_retried + 1 ELSE n_retried
              /\ all_empty' = (all_empty /\ resp.status = Some(200) /\ resp.count = 0)
  /\ UNCHANGED << entry, query_doi, query_author_title, query_title,
                  use_latex_stripped_title, latex_retry_attempted,
                  latex_stripped_title, pc, ret, calls, n_retry, retry_call >>
  /\ UNCHANGED notq

\* iter_queries() runs to its end: the pass returns None.
PassExhausted ==
  /\ pc \in { "plain", "retry" }
  /\ gen # "returned"
  /\ LET y == iter_queries
     IN  /\ y.at = "returned"
         /\ title' = y.title
         /\ doi' = y.doi
         /\ authors' = y.authors
  /\ gen' = "returned"
  /\ value' = "None"
  /\ UNCHANGED << entry, query_doi, query_author_title, query_title,
                  use_latex_stripped_title, latex_retry_attempted,
                  latex_stripped_title, result_count, response_status, pc, ret,
                  calls, log, n_retry, retry_call, n_retried, all_empty >>
  /\ UNCHANGED notq

\* query, lines 253-269, once the plain pass has returned: query() returns,
\* or the retry pass begins.
QueryReturn ==
  /\ pc = "plain"
  /\ gen = "returned"
  /\ IF ReturnsPlainResult
     THEN /\ pc' = "idle"
          /\ ret' = value
          /\ UNCHANGED << use_latex_stripped_title, latex_retry_attempted,
                          latex_stripped_title, gen, value, n_retry, retry_call >>
     ELSE IF ~StatusIsSuccess \/ last_result_count # 0 \/ IsNone(_title_without_latex)
     THEN /\ pc' = "idle"
          /\ ret' = "None"
          /\ UNCHANGED << use_latex_stripped_title, latex_retry_attempted,
                          latex_stripped_title, gen, value, n_retry, retry_call >>
     ELSE /\ latex_retry_attempted' = TRUE
          /\ use_latex_stripped_title' = TRUE
          /\ latex_stripped_title' = _title_without_latex
          /\ pc' = "retry"
          /\ gen' = "start"
          /\ value' = "None"
          /\ n_retry' = n_retry + 1
          /\ retry_call' = calls
          /\ UNCHANGED ret
  /\ UNCHANGED << entry, query_doi, query_author_title, query_title, title,
                  doi, authors, result_count, response_status, calls, log,
                  n_retried, all_empty >>
  /\ UNCHANGED notq

\* query, lines 272-274: what the finally clause leaves in
\* _use_latex_stripped_title and _latex_stripped_title
FinallyReset_KeepsTitle ==
  [ use |-> use_latex_stripped_title, stripped |-> latex_stripped_title ]

FinallyReset == [ use |-> FALSE, stripped |-> None ]

\* query, lines 270-274, once the retry pass has returned
RetryReturn ==
  /\ pc = "retry"
  /\ gen = "returned"
  /\ use_latex_stripped_title' = FinallyReset.use
  /\ latex_stripped_title' = FinallyReset.stripped
  /\ pc' = "idle"
  /\ ret' = value
  /\ UNCHANGED << entry, query_doi, query_author_title, query_title,
                  latex_retry_attempted, title, doi, authors, result_count,
                  response_status, gen, value, calls, log, n_retry, retry_call,
                  n_retried, all_empty >>
  /\ UNCHANGED notq

\* An attempt of the pass ends with an exception, which super().query()
\* lets through: query() does not catch it, and the finally clause of lines
\* 272-274 runs if the pass is the retried one.
PassRaises ==
  /\ pc \in { "plain", "retry" }
  /\ gen # "returned"
  /\ iter_queries.at # "returned"
  /\ use_latex_stripped_title' =
       IF pc = "retry" THEN FinallyReset.use ELSE use_latex_stripped_title
  /\ latex_stripped_title' =
       IF pc = "retry" THEN FinallyReset.stripped ELSE latex_stripped_title
  /\ pc' = "idle"
  /\ gen' = "returned"
  /\ ret' = "raised"
  /\ all_empty' = FALSE
  /\ UNCHANGED << entry, query_doi, query_author_title, query_title,
                  latex_retry_attempted, title, doi, authors, result_count,
                  response_status, value, calls, log, n_retry, retry_call,
                  n_retried >>
  /\ UNCHANGED notq

NextQuery ==
  Call \/ Attempt \/ PassExhausted \/ QueryReturn \/ RetryReturn
    \/ PassRaises

\* ------------------------------------------------ the retry of query()

\* The entry's title, stripped of its LaTeX, is a text the retry can use:
\* not empty and not the title itself.
StrippedTitleUsable ==
  /\ ~IsNone(entry.title)
  /\ LET stripped == strip_latex_code(Val(entry.title))
     IN  stripped # << >> /\ stripped # Val(entry.title)

AllScopes == query_doi /\ query_author_title /\ query_title

RetryAttempts == { i \in 1..Len(log) : log[i].pass = "retry" }

\* C1: over the query() calls on one instance the retry pass is entered at
\* most once: _latex_retry_attempted stays set once set, a retry pass is
\* entered only while it is unset and no retry pass was entered before, and
\* a query() whose plain pass returns while it is set returns that pass's
\* result and issues nothing more.
C1_RetryAtMostOnce ==
  [][ /\ (latex_retry_attempted => latex_retry_attempted')
      /\ (pc # "retry" /\ pc' = "retry" => ~latex_retry_attempted /\ n_retry = 0)
      /\ (latex_retry_attempted /\ pc = "plain" /\ gen = "returned"
            => pc' = "idle" /\ ret' = value /\ log' = log) ]_vars

\* A query() made after the one that retried has returned None from a plain
\* pass that ended on a success with no result, and did not retry again.
C1_Witness ==
  /\ pc = "idle"
  /\ n_retry = 1
  /\ retry_call >= 1
  /\ calls > retry_call
  /\ ret = "None"
  /\ response_status = Some(200)
  /\ result_count = Some(0)
  /\ log # << >>
  /\ RetryAttempts = {}

\* C2 as stated: with every response a success without results, the three
\* scopes enabled and a stripped title the retry can use, which differs
\* from the title, exactly one query is issued by retrying.
C2_ExactlyOneRetriedAttempt ==
  ( /\ pc = "idle"
    /\ calls >= 1
    /\ all_empty
    /\ AllScopes
    /\ StrippedTitleUsable )
  => n_retried = 1

\* C2 as amended: with every response a success without results, the three
\* scopes enabled and a stripped title that is not empty and differs from
\* the title, exactly one retry pass is entered over all the query() calls;
\* it issues one title-only query when the entry has no authors, and a
\* title+author query then a title-only query when it has.
C2_ExactlyOneRetryPass ==
  ( /\ pc = "idle"
    /\ calls >= 1
    /\ all_empty
    /\ AllScopes
    /\ StrippedTitleUsable )
  => /\ n_retry = 1
     /\ n_retried = (IF IsNone(entry.author) THEN 1 ELSE 2)
     /\ retry_call = calls =>
          /\ Cardinality(RetryAttempts) = n_retried
          /\ \A i \in RetryAttempts :
               log[i].mode = (IF ~IsNone(entry.author) /\ i + 1 \in RetryAttempts
                              THEN "author_title" ELSE "title")

\* Every scope is enabled, the entry has a DOI and authors, every response
\* was a success without results, and the retry pass has issued its queries.
C2_Witness ==
  /\ pc = "idle"
  /\ all_empty
  /\ AllScopes
  /\ StrippedTitleUsable
  /\ ~IsNone(entry.doi)
  /\ ~IsNone(entry.author)
  /\ retry_call = calls
  /\ Len(log) = 5

\* C3: the retry pass is entered only when the last parsed response held no
\* result.
C3_RetryOnlyAfterZeroResults ==
  (pc = "retry" /\ gen = "start") => result_count = Some(0)

\* C4: when the plain pass returns with a last response status that is not
\* an integer in 200..299 (or with no response), query() returns None, issues
\* no further query and leaves the status in place.
C4_NoRetryAfterFailure ==
  [][ ( /\ pc = "plain"
        /\ gen = "returned"
        /\ \/ IsNone(response_status)
           \/ Val(response_status) < 200
           \/ Val(response_status) >= 300 )
      => /\ pc' = "idle"
         /\ ret' = "None"
         /\ log' = log
         /\ response_status' = response_status
         /\ latex_retry_attempted' = latex_retry_attempted ]_vars

\* query() has returned None after a 429 on an entry whose stripped title
\* the retry could have used.
C4_Witness ==
  /\ pc = "idle"
  /\ calls = 1
  /\ ret = "None"
  /\ response_status = Some(429)
  /\ StrippedTitleUsable
  /\ log # << >>
  /\ ~latex_retry_attempted

\* C5: when the entry has no title, or its stripped title is empty or equal
\* to the title, no retry pass is entered and _latex_retry_attempted stays
\* unset; every query of a retry pass carries the stripped title, which is
\* not empty and differs from the title.
C5_RetryNeedsDifferentTitle ==
  /\ ~StrippedTitleUsable =>
       ~latex_retry_attempted /\ pc # "retry" /\ n_retry = 0
  /\ pc = "retry" =>
       /\ StrippedTitleUsable
       /\ latex_stripped_title = Some(strip_latex_code(Val(entry.title)))
  /\ \A i \in RetryAttempts :
       /\ StrippedTitleUsable
       /\ log[i].title = Some(strip_latex_code(Val(entry.title)))

\* query() has returned None after a success with no result on an entry
\* whose stripped title is the title itself: the retry was skipped.
C5_Witness ==
  /\ pc = "idle"
  /\ calls >= 1
  /\ ret = "None"
  /\ response_status = Some(200)
  /\ result_count = Some(0)
  /\ ~IsNone(entry.title)
  /\ strip_latex_code(Val(entry.title)) = Val(entry.title)
  /\ ~latex_retry_attempted

\* C6: every query issued in a retry pass has no DOI parameter, and its
\* search string is the quoted stripped title, alone or followed by the
\* author keys: never a "doi:" search.
C6_RetryIsContentSearch ==
  \A i \in RetryAttempts :
    LET quoted == Quote \o strip_latex_code(Val(entry.title)) \o Quote
    IN  /\ IsNone(log[i].doi)
        /\ ~StartsWith(log[i].search, DoiPrefix)
        /\ \/ log[i].search = quoted
           \/ /\ ~IsNone(log[i].authors)
              /\ log[i].search = quoted \o << " " >> \o Join(<< " " >>, Val(log[i].authors))

\* A retry pass has issued a query for an entry that has a DOI, with the
\* identifier search enabled.
C6_Witness ==
  /\ RetryAttempts # {}
  /\ ~IsNone(entry.doi)
  /\ query_doi
  /\ \E i \in 1..Len(log) : log[i].mode = "doi"

\* ------------------------------------------- the attempts of one pass

TitleBased == { "author_title", "title" }

\* The place of an attempt in the order of iter_queries
Rank(mode) ==
  IF mode = "doi" THEN 1 ELSE IF mode = "author_title" THEN 2 ELSE 3

\* C16: for an entry with no title no title-based attempt is issued, a
\* query() call issues the DOI attempt at most; with no DOI either it issues
\* no attempt, enters no retry pass and returns None.
C16_NoTitleNoTitleSearch ==
  IsNone(entry.title) =>
    /\ Len(log) <= 1
    /\ \A i \in 1..Len(log) : log[i].mode = "doi" /\ log[i].doi = entry.doi
    /\ n_retry = 0
    /\ IsNone(entry.doi) => (log = << >> /\ ret = "None")

C16_Witness ==
  /\ IsNone(entry.title)
  /\ IsNone(entry.doi)
  /\ ~IsNone(entry.author)
  /\ AllScopes
  /\ calls >= 1
  /\ pc = "idle"
  /\ ret = "None"

\* C17: within a pass the attempts come in the order DOI, title+author,
\* title, each at most once, each only with its scope enabled and its
\* parameters present on the entry; and a title-based attempt is a title
\* search whether the DOI scope is enabled or not.
C17_AttemptsInOrder ==
  /\ \A i, j \in 1..Len(log) :
       (i < j /\ log[i].pass = log[j].pass) =>
         Rank(log[i].mode) < Rank(log[j].mode)
  /\ \A i \in 1..Len(log) :
       /\ log[i].mode = "doi" => (query_doi /\ ~IsNone(entry.doi))
       /\ log[i].mode = "author_title" =>
            (query_author_title /\ ~IsNone(entry.title)
               /\ ~IsNone(entry.author))
       /\ log[i].mode = "title" => (query_title /\ ~IsNone(entry.title))
       /\ log[i].mode \in TitleBased =>
            (IsNone(log[i].doi) /\ ~StartsWith(log[i].search, DoiPrefix))

\* C21: the title attempt is a title search and nothing else: its search
\* string is the quoted title, with no author after it, whatever scopes are
\* enabled and whether the entry has authors or not.
C21_TitleSearchIsPure ==
  \A i \in 1..Len(log) :
    log[i].mode = "title" =>
      /\ ~IsNone(log[i].title)
      /\ log[i].search = << "\"" >> \o Val(log[i].title) \o << "\"" >>

\* C22: once query() has returned, the result count it reports is that of
\* the last attempt it issued: an attempt that got no successful response
\* returned no result, so the count reported after it is absent or 0, never
\* a number an earlier attempt left.
C22_ReportedCountIsLastAttempts ==
  (pc = "idle" /\ log # << >>) =>
    (response_status # Some(200) =>
       (IsNone(result_count) \/ result_count = Some(0)))

\* C23: while query() is not running, whether it has returned an entry or
\* None or has ended with an exception of the retried pass,
\* _use_latex_stripped_title is False and _latex_stripped_title is None; and
\* a plain pass, the first or a later one, queries the entry's own title and
\* DOI.
C23_StrippedTitleReset ==
  /\ pc = "idle" =>
       (use_latex_stripped_title = FALSE /\ latex_stripped_title = None)
  /\ pc = "plain" =>
       /\ use_latex_stripped_title = FALSE
       /\ \A i \in 1..Len(log) :
            /\ log[i].title = entry.title
            /\ log[i].mode = "doi" => log[i].doi = entry.doi

\* The call that entered the retry pass ended with an exception, and a
\* later call has issued an attempt.
C23_Witness ==
  /\ pc = "plain"
  /\ n_retry = 1
  /\ retry_call >= 1
  /\ calls > retry_call
  /\ ret = "raised"
  /\ ~IsNone(entry.doi)
  /\ StrippedTitleUsable
  /\ log # << >>

\* C24: wherever iter_queries yields, in the plain pass or the retried one,
\* self.doi or self.title is set, so get_params does not raise; every
\* attempt issued had one of the two.
C24_ParamsAtEveryYield ==
  /\ (pc \in { "plain", "retry" } /\ gen # "returned") =>
       (iter_queries.at # "returned" =>
          /\ ~IsNone(iter_queries.doi) \/ ~IsNone(iter_queries.title)
          /\ ~get_params(iter_queries.doi, iter_queries.title,
                         iter_queries.authors).raised)
  /\ \A i \in 1..Len(log) : ~IsNone(log[i].doi) \/ ~IsNone(log[i].title)

\* The retried pass stands at a yield without a DOI, of an entry that has one.
C24_Witness ==
  /\ pc = "retry"
  /\ gen # "returned"
  /\ iter_queries.at = "author_title"
  /\ IsNone(iter_queries.doi)
  /\ ~IsNone(entry.doi)
  /\ ~query_doi

\* ---------------------------------------------- the lookups' results merged

LookupNames == { "zbmath", "crossref" }

FieldNames == { "title", "journal", "note" }

EntryID == "replaceKey"

\* A field's value is written as where it comes from: "Original" in the
\* entry read, the lookup's name in a lookup's result.
OriginalValue == "Original"

\* The entries that can be read: each field absent or with its original value
InputEntries ==
  [ ID : { EntryID }, fields : [ FieldNames -> { None, Some(OriginalValue) } ] ]

\* The results lookup name can return: each field absent or supplied
ResultsOf(name) ==
  [ ID : { EntryID }, fields : [ FieldNames -> { None, Some(name) } ] ]

Orderings(S) ==
  { seq \in [ 1..Cardinality(S) -> S ] :
      \A i, j \in 1..Cardinality(S) : i # j => seq[i] # seq[j] }

\* The order in which the lookups' results are taken: that of the lookups
\* as listed (-q zbmath -q crossref), whatever order the threads finished in
PriorityOrder_ByCompletion == completed

PriorityOrder == lookups

\* The lookups, in the order of priority, that returned a result
RECURSIVE WithResult(_)
WithResult(order) ==
  IF order = << >> THEN << >>
  ELSE (IF IsNone(result[Head(order)]) THEN << >> ELSE << Head(order) >>)
         \o WithResult(Tail(order))

\* The lookups of order whose result supplies field f
RECURSIVE Supplying(_, _)
Supplying(order, f) ==
  IF order = << >> THEN << >>
  ELSE (IF IsNone(Val(result[Head(order)]).fields[f]) THEN << >>
        ELSE << Head(order) >>)
         \o Supplying(Tail(order), f)

FirstValue(order, f) ==
  IF Supplying(order, f) = << >> THEN None
  ELSE Val(result[Head(Supplying(order, f))]).fields[f]

\* Fill-only: a field the entry holds is kept, an empty one is taken from
\* the first lookup that supplies it.
fill_entry_Overwrites(order) ==
  [ ID |-> input.ID,
    fields |-> [ f \in FieldNames |->
                   IF IsNone(FirstValue(order, f)) THEN input.fields[f]
                   ELSE FirstValue(order, f) ] ]

fill_entry(order) ==
  [ ID |-> input.ID,
    fields |-> [ f \in FieldNames |->
                   IF ~IsNone(input.fields[f]) THEN input.fields[f]
                   ELSE FirstValue(order, f) ] ]

\* Replace (-R): the entry keeps its key and takes the fields of the result
\* of the first lookup that returned one, and only those; with no result at
\* all the entry stays as read.
replace_entry_KeepsOriginal(order) ==
  IF order = << >> THEN input
  ELSE [ ID |-> input.ID,
         fields |-> [ f \in FieldNames |->
                        IF IsNone(Val(result[Head(order)]).fields[f])
                        THEN input.fields[f]
                        ELSE Val(result[Head(order)]).fields[f] ] ]

replace_entry_FallsThrough(order) ==
  IF order = << >> THEN input
  ELSE [ ID |-> input.ID,
         fields |-> [ f \in FieldNames |-> FirstValue(order, f) ] ]

replace_entry(order) ==
  IF order = << >> THEN input
  ELSE [ ID |-> input.ID, fields |-> Val(result[Head(order)]).fields ]

\* The most hits a query's info reports here
MaxHits == 3

\* The lookups of a run without -q, in the order of LOOKUPS
DefaultLookups == << "crossref", "zbmath" >>

\* ErrorCodes, as far as main() exits with them here
ErrorCodes == { "SUCCESS", "CLI_ERROR" }

\* -R replaces an entry by the result of a lookup the user has chosen: it is
\* a command line error without -q
ConfigError_Never == FALSE

ConfigError == replace /\ only_query = << >>

DigitChars == << "0", "1", "2", "3", "4", "5", "6", "7", "8", "9" >>

\* str(n) of a natural number
RECURSIVE ToStr(_)
ToStr(n) ==
  IF n < 10 THEN << DigitChars[n + 1] >>
  ELSE ToStr(n \div 10) \o << DigitChars[(n % 10) + 1] >>

\* f"{name} ({n} hits)" after the entry's key: the key and the lookup's name
\* are kept whole, the text between them is written out
HitLine_WithoutName(key, name, n) ==
  << key, ":", " ", "(" >> \o ToStr(n) \o << " ", "h", "i", "t", "s", ")" >>

HitLine(key, name, n) ==
  << key, ":", " ", name, " ", "(" >> \o ToStr(n)
    \o << " ", "h", "i", "t", "s", ")" >>

\* No thread has a result: the entry was not found
NoMatch_AnyThread == \E name \in LookupNames : IsNone(result[name])

NoMatch == \A name \in LookupNames : IsNone(result[name])

\* The thread's query matched one of several results
IsMultipleHit(name) == ~IsNone(result[name]) /\ hits[name] > 1

\* The lines of the multiple-hits log for the entry, one per lookup of order
RECURSIVE MultipleHitLines(_)
MultipleHitLines(order) ==
  IF order = << >> THEN << >>
  ELSE (IF IsMultipleHit(Head(order))
        THEN << HitLine(input.ID, Head(order), hits[Head(order)]) >>
        ELSE << >>) \o MultipleHitLines(Tail(order))

InitMerge ==
  /\ replace \in BOOLEAN
  /\ only_query \in { << >> } \cup Orderings(LookupNames)
  /\ lookups = << >>
  /\ input \in InputEntries
  /\ thread = [ name \in LookupNames |-> "idle" ]
  /\ result = [ name \in LookupNames |-> None ]
  /\ hits = [ name \in LookupNames |-> 0 ]
  /\ completed = << >>
  /\ output = None
  /\ main = "start"
  /\ exit_code = None
  /\ output_file = None
  /\ not_found_log = << >>
  /\ multiple_hits_log = << >>

\* main(), up to the start of the lookups' threads: the command line is
\* checked first, and a command line error ends the run there.
Main ==
  /\ main = "start"
  /\ IF ConfigError
     THEN /\ main' = "exited"
          /\ exit_code' = Some("CLI_ERROR")
          /\ UNCHANGED << lookups, thread >>
     ELSE /\ main' = "running"
          /\ lookups' = IF only_query = << >> THEN DefaultLookups
                        ELSE only_query
          /\ thread' = [ name \in LookupNames |-> "running" ]
          /\ UNCHANGED exit_code
  /\ UNCHANGED << replace, only_query, input, result, hits, completed,
                  output, output_file, not_found_log, multiple_hits_log >>
  /\ UNCHANGED notm

\* The thread of one lookup finishes: its query has returned a result or
\* None, and the info of the query its hit count.
ThreadFinish ==
  /\ \E name \in LookupNames :
       /\ thread[name] = "running"
       /\ \E r \in Optional(ResultsOf(name)) :
            result' = [ result EXCEPT ![name] = r ]
       /\ \E n \in 0..MaxHits :
            /\ ~IsNone(result'[name]) => n >= 1
            /\ hits' = [ hits EXCEPT ![name] = n ]
       /\ thread' = [ thread EXCEPT ![name] = "done" ]
       /\ completed' = Append(completed, name)
  /\ UNCHANGED << replace, lookups, input, output, only_query, main,
                  exit_code, output_file, not_found_log, multiple_hits_log >>
  /\ UNCHANGED notm

\* update_entry, once every thread is done: the entry is merged and the two
\* log files get their lines for it
UpdateEntry ==
  /\ main = "running"
  /\ IsNone(output)
  /\ \A name \in LookupNames : thread[name] = "done"
  /\ output' = Some(IF replace THEN replace_entry(WithResult(PriorityOrder))
                    ELSE fill_entry(WithResult(PriorityOrder)))
  /\ not_found_log' = IF NoMatch THEN Append(not_found_log, << input.ID >>)
                      ELSE not_found_log
  /\ multiple_hits_log' = multiple_hits_log \o MultipleHitLines(lookups)
  /\ UNCHANGED << replace, lookups, input, thread, result, completed,
                  only_query, main, exit_code, output_file, hits >>
  /\ UNCHANGED notm

\* main() writes the output file and exits
WriteOutput ==
  /\ main = "running"
  /\ ~IsNone(output)
  /\ output_file' = output
  /\ exit_code' = Some("SUCCESS")
  /\ main' = "exited"
  /\ UNCHANGED << replace, lookups, input, thread, result, completed,
                  output, only_query, hits, not_found_log,
                  multiple_hits_log >>
  /\ UNCHANGED notm

NextMerge == Main \/ ThreadFinish \/ UpdateEntry \/ WriteOutput

\* ------------------------------------------------------ the merged entry

Merged == ~IsNone(output)

\* Lookup name returned a result that supplies field f
Supplies(name, f) ==
  /\ ~IsNone(result[name])
  /\ ~IsNone(Val(result[name]).fields[f])

ValueOf(name, f) == Val(result[name]).fields[f]

C9_ReplaceTakesFirstResult ==
  ( /\ Merged
    /\ replace
    /\ \A name \in LookupNames : ~IsNone(result[name]) )
  => /\ Val(output).ID = input.ID
     /\ \A f \in FieldNames :
          /\ Supplies(lookups[1], f) =>
               Val(output).fields[f] = ValueOf(lookups[1], f)
          /\ Val(output).fields[f] # Some(lookups[2])
          /\ Val(output).fields[f] # Some(OriginalValue)

\* The run of test_replace_entry_prefers_first_lookup: the entry read has a
\* title and a note, zbmath is listed first and supplies title and journal,
\* crossref supplies title and note, and the entry is merged.
C9_Witness ==
  /\ Merged
  /\ replace
  /\ lookups = << "zbmath", "crossref" >>
  /\ input.fields = [ f \in FieldNames |->
                        IF f = "journal" THEN None ELSE Some(OriginalValue) ]
  /\ result["zbmath"] =
       Some([ ID |-> EntryID,
              fields |-> [ f \in FieldNames |->
                             IF f = "note" THEN None ELSE Some("zbmath") ] ])
  /\ result["crossref"] =
       Some([ ID |-> EntryID,
              fields |-> [ f \in FieldNames |->
                             IF f = "journal" THEN None ELSE Some("crossref") ] ])

\* C10: in fill-only mode every field the entry read holds has that value
\* in the merged entry, and every field it leaves empty has the value of the
\* first listed lookup that supplies it (and stays empty when none does).
C10_FillOnlyKeepsFields ==
  (Merged /\ ~replace) =>
    \A f \in FieldNames :
      /\ ~IsNone(input.fields[f]) => Val(output).fields[f] = input.fields[f]
      /\ IsNone(input.fields[f]) =>
           IF \A i \in 1..Len(lookups) : ~Supplies(lookups[i], f)
           THEN IsNone(Val(output).fields[f])
           ELSE \E i \in 1..Len(lookups) :
                  /\ Supplies(lookups[i], f)
                  /\ \A j \in 1..(i - 1) : ~Supplies(lookups[j], f)
                  /\ Val(output).fields[f] = ValueOf(lookups[i], f)

\* In fill-only mode the entry read had a title that both lookups supply
\* too, and no journal, which only the second-listed lookup supplies; the
\* entry is merged.
C10_Witness ==
  /\ Merged
  /\ ~replace
  /\ ~IsNone(input.fields["title"])
  /\ Supplies(lookups[1], "title")
  /\ Supplies(lookups[2], "title")
  /\ IsNone(input.fields["journal"])
  /\ ~IsNone(result[lookups[1]])
  /\ ~Supplies(lookups[1], "journal")
  /\ Supplies(lookups[2], "journal")

\* ------------------------------------------------ the run and its log files

\* C11: a run with -R and no -q is a command line error found before any
\* lookup is started: main() exits with CLI_ERROR, no thread has run, no
\* entry was merged and no output file was written.
C11_ConfigErrorBeforeDispatch ==
  (replace /\ only_query = << >> /\ main # "start") =>
    /\ main = "exited"
    /\ exit_code = Some("CLI_ERROR")
    /\ \A name \in LookupNames : thread[name] = "idle"
    /\ completed = << >>
    /\ IsNone(output)
    /\ IsNone(output_file)

C11_Witness == replace /\ only_query = << >> /\ main = "exited"

C15_MultipleHitsLogged ==
  Merged =>
    \A name \in LookupNames :
      (~IsNone(result[name]) /\ hits[name] > 1) =>
        /\ \E i \in 1..Len(multiple_hits_log) :
             multiple_hits_log[i] =
               << input.ID, ":", " ", name, " ", "(",
                  DigitChars[hits[name] + 1], " ", "h", "i", "t", "s", ")" >>
        /\ not_found_log = << >>
        /\ Val(output) =
             IF replace THEN replace_entry(WithResult(lookups))
             ELSE fill_entry(WithResult(lookups))

C15_Witness ==
  /\ Merged
  /\ \E name \in LookupNames :
       /\ ~IsNone(result[name])
       /\ hits[name] = 3
       /\ Len(multiple_hits_log) = 1

\* ------------------------------------------------------------- Dispatcher

\* The records of a batch and the largest concurrency budget configured here
Records == { "r1", "r2" }

MaxBudget == 2

\* ZbMathLookup.fields
ZbMathFields ==
  { "author", "isbn", "issn", "journal", "doi", "number", "pages",
    "publisher", "series", "title", "url", "volume", "year" }

\* The fields another lookup declares: some of ZbMathLookup's and one more
CrossrefFields == { "author", "doi", "title", "booktitle" }

declared_fields(name) ==
  IF name = "zbmath" THEN ZbMathFields ELSE CrossrefFields

\* The fields a record read from the input can have populated
SamplePopulated ==
  { ZbMathFields \ { "year" }, ZbMathFields,
    ZbMathFields \cup CrossrefFields }

\* A source cannot add to a record that has every field it declares
Satisfied_AnyField(fields, have) == fields \cap have # { }

Satisfied(fields, have) == fields \subseteq have

Ops == Records \X LookupNames

\* The ways Source.execute fails
Failures == { "network_error", "rate_limited", "parse_error" }

\* The states in which a source's work on a record has ended
Settled_OnlyCompleted(st) == st \in { "skipped", "completed" }

Settled(st) == st \in { "skipped", "completed", "timed_out" } \cup Failures

\* The network operations in flight, over the records of r (all of them for
\* the global budget)
InFlight(rs) ==
  Cardinality({ o \in Ops : o[1] \in rs /\ op[o] = "in_flight" })

\* The scheduler lets an operation of record r start
MayStart_PerRecord(r) == InFlight({ r }) < concurrency_budget

MayStart(r) == InFlight(Records) < concurrency_budget

InitDispatch ==
  /\ concurrency_budget \in 1..MaxBudget
  /\ populated \in [ Records -> SamplePopulated ]
  /\ rec = [ r \in Records |-> "new" ]
  /\ op = [ o \in Ops |-> "not_started" ]
  /\ candidate = [ o \in Ops |-> FALSE ]
  /\ queried = { }
  /\ outcomes = [ r \in Records |-> None ]
  /\ batch = "running"

\* run(input, sources, budget) begins for record r: every source whose
\* declared fields the record does not satisfy is scheduled, the others are
\* skipped.
Dispatch ==
  /\ \E r \in Records :
       /\ rec[r] = "new"
       /\ rec' = [ rec EXCEPT ![r] = "dispatched" ]
       /\ op' = [ o \in Ops |->
                    IF o[1] # r THEN op[o]
                    ELSE IF Satisfied(declared_fields(o[2]), populated[r])
                         THEN "skipped" ELSE "scheduled" ]
  /\ UNCHANGED << concurrency_budget, populated, candidate, queried,
                  outcomes, batch >>
  /\ UNCHANGED notd

\* The scheduler starts the network operation of a scheduled source.
Start ==
  /\ \E o \in Ops :
       /\ op[o] = "scheduled"
       /\ MayStart(o[1])
       /\ op' = [ op EXCEPT ![o] = "in_flight" ]
       /\ queried' = queried \cup { o }
  /\ UNCHANGED << concurrency_budget, populated, rec, candidate, outcomes,
                  batch >>
  /\ UNCHANGED notd

\* The operation returns: the source has an accepted candidate or none.
Complete ==
  /\ \E o \in Ops, acc \in BOOLEAN :
       /\ op[o] = "in_flight"
       /\ op' = [ op EXCEPT ![o] = "completed" ]
       /\ candidate' = [ candidate EXCEPT ![o] = acc ]
  /\ UNCHANGED << concurrency_budget, populated, rec, queried, outcomes,
                  batch >>
  /\ UNCHANGED notd

\* The operation fails with a NetworkError, RateLimitError or ParseError.
Fail ==
  /\ \E o \in Ops, failure \in Failures :
       /\ op[o] = "in_flight"
       /\ op' = [ op EXCEPT ![o] = failure ]
  /\ UNCHANGED << concurrency_budget, populated, rec, candidate, queried,
                  outcomes, batch >>
  /\ UNCHANGED notd

\* The timeout of record r elapses: its outstanding sources are abandoned.
Timeout ==
  /\ \E r \in Records :
       /\ rec[r] = "dispatched"
       /\ \E o \in Ops : o[1] = r /\ ~Settled(op[o])
       /\ op' = [ o \in Ops |->
                    IF o[1] = r /\ ~Settled(op[o]) THEN "timed_out"
                    ELSE op[o] ]
  /\ UNCHANGED << concurrency_budget, populated, rec, candidate, queried,
                  outcomes, batch >>
  /\ UNCHANGED notd

\* run() returns the outcome mapping of record r: per source the accepted
\* candidate (TRUE) or no result (FALSE).
Return ==
  /\ \E r \in Records :
       /\ rec[r] = "dispatched"
       /\ \A name \in LookupNames : Settled(op[<< r, name >>])
       /\ rec' = [ rec EXCEPT ![r] = "done" ]
       /\ outcomes' =
            [ outcomes EXCEPT
                ![r] = Some([ name \in LookupNames |->
                                op[<< r, name >>] = "completed"
                                  /\ candidate[<< r, name >>] ]) ]
  /\ UNCHANGED << concurrency_budget, populated, op, candidate, queried,
                  batch >>
  /\ UNCHANGED notd

\* Every record is done: the batch completes.
BatchComplete ==
  /\ batch = "running"
  /\ \A r \in Records : rec[r] = "done"
  /\ batch' = "complete"
  /\ UNCHANGED << concurrency_budget, populated, rec, op, candidate,
                  queried, outcomes >>
  /\ UNCHANGED notd

NextDispatch ==
  Dispatch \/ Start \/ Complete \/ Fail \/ Timeout \/ Return
    \/ BatchComplete

\* ------------------------------------------------- the batch dispatched

\* C12: at no time are more network operations in flight, over all the
\* records of the batch, than the concurrency budget allows.
C12_WithinBudget ==
  Cardinality({ o \in Ops : op[o] = "in_flight" }) <= concurrency_budget

C12_Witness ==
  /\ Cardinality({ o \in Ops : op[o] = "in_flight" }) = concurrency_budget
  /\ \E o, p \in Ops :
       o[1] # p[1] /\ op[o] = "in_flight" /\ op[p] = "in_flight"
  /\ \E o \in Ops : op[o] = "scheduled"

\* C13: a source's failure changes nothing of any other source, a record's
\* timeout nothing of another record nor of a source that has ended; the
\* outcome mapping returned for a record has the accepted candidate of a
\* completed source and no result for a failed or timed-out one; every
\* record is eventually returned its mapping and the batch completes.
C13_FailureIsLocal ==
  /\ [][\A o \in Ops :
          (op[o] = "in_flight" /\ op'[o] \in Failures) =>
            /\ \A p \in Ops \ { o } : op'[p] = op[p]
            /\ candidate' = candidate /\ rec' = rec]_vars
  /\ [][\A o \in Ops :
          (op[o] # "timed_out" /\ op'[o] = "timed_out") =>
            /\ \A p \in Ops :
                 (p[1] # o[1] \/ op[p] \in { "completed" } \cup Failures) =>
                   op'[p] = op[p]
            /\ candidate' = candidate /\ rec' = rec]_vars
  /\ [](\A o \in Ops :
          ~IsNone(outcomes[o[1]]) =>
            /\ op[o] = "completed" =>
                 Val(outcomes[o[1]])[o[2]] = candidate[o]
            /\ op[o] \in { "timed_out" } \cup Failures =>
                 Val(outcomes[o[1]])[o[2]] = FALSE)
  /\ \A r \in Records : <>(rec[r] = "done" /\ ~IsNone(outcomes[r]))
  /\ <>(batch = "complete")

C13_Witness ==
  /\ batch = "complete"
  /\ \E r \in Records :
       /\ op[<< r, "zbmath" >>] = "rate_limited"
       /\ op[<< r, "crossref" >>] = "completed"
       /\ Val(outcomes[r])["crossref"]
       /\ ~Val(outcomes[r])["zbmath"]
       /\ \E s \in Records \ { r } :
            /\ op[<< s, "zbmath" >>] = "timed_out"
            /\ op[<< s, "crossref" >>] = "completed"
            /\ Val(outcomes[s])["crossref"]

MaxCommentLen == 3

ENTRY_SOURCE_COMMENT_KEY == "__btac_source_comment__"

\* The characters of the comments: "%", a letter, a space and the line
\* boundaries "\n" and "\r" of str.splitlines()
CommentChars == { "%", "a", " ", "\n", "\r" }

Comments == UNION { [ 1..k -> CommentChars ] : k \in 0..MaxCommentLen }

\* The comments set_entry_source_comments hands over for an entry's ID
SampleComments == { << >>, << "a" >>, << "%", "\n", "a" >> }

EntryIDs == { "k" }

\* The entries handed to _entry_to_bibtex: with an ID or without, and the
\* reserved key absent (None), present with the value None (Some(None)) or
\* present with a comment
WriterEntries ==
  [ ID : Optional(EntryIDs), source_comment : Optional(Optional(Comments)) ]

IsLineBoundary(c) == c \in { "\n", "\r" }

\* str.splitlines(): the lines of s without their boundaries, "\r\n" being
\* one boundary; no empty last line after a final boundary.  cur is the line
\* read so far.
RECURSIVE SplitLinesFrom(_, _)
SplitLinesFrom(s, cur) ==
  IF s = << >> THEN (IF cur = << >> THEN << >> ELSE << cur >>)
  ELSE IF Head(s) = "\r" /\ Len(s) > 1 /\ s[2] = "\n"
       THEN << cur >> \o SplitLinesFrom(Tail(Tail(s)), << >>)
  ELSE IF IsLineBoundary(Head(s))
       THEN << cur >> \o SplitLinesFrom(Tail(s), << >>)
  ELSE SplitLinesFrom(Tail(s), cur \o << Head(s) >>)

splitlines(s) == SplitLinesFrom(s, << >>)

\* f"% {line}" if not line.startswith("%") else line
FormatCommentLine_AsIs(line) == line

FormatCommentLine(line) ==
  IF StartsWith(line, << "%" >>) THEN line ELSE << "%", " " >> \o line

\* "\n".join(... for line in comment_lines)
formatted_comment(comment) ==
  LET comment_lines == splitlines(comment)
  IN  Join(<< "\n" >>,
           [ i \in 1..Len(comment_lines) |->
               FormatCommentLine(comment_lines[i]) ])

\* _entry_to_bibtex, lines 31-36: the comment of the entry, from the entry's
\* reserved key if it has the key, else from entry_source_comments by its ID
SourceComment(e, comments) ==
  IF ~IsNone(e.source_comment) THEN Val(e.source_comment)
  ELSE IF ~IsNone(e.ID) THEN comments[Val(e.ID)]
  ELSE None

\* lines 37-39: the entry handed to the serializer
WithoutCommentKey(e, comment) ==
  IF ~IsNone(comment) THEN [ e EXCEPT !.source_comment = None ] ELSE e

\* BibTexWriter._entry_to_bibtex of bibtexparser: the text of an entry, with
\* one field per key the entry holds
SerializeEntry(e) ==
  << "@", "{" >> \o e.ID
    \o (IF ~IsNone(e.source_comment)
        THEN << ",", ENTRY_SOURCE_COMMENT_KEY >> ELSE << >>)
    \o << "}", "\n" >>

InitWriter ==
  /\ db_entry \in WriterEntries
  /\ entry_source_comments \in [ EntryIDs -> Optional(SampleComments) ]
  /\ bibtex_entry = None
  /\ written = None

\* BTACBibTexWriter._entry_to_bibtex(db_entry)
EntryToBibtex ==
  /\ IsNone(written)
  /\ LET comment == SourceComment(db_entry, entry_source_comments)
         text == SerializeEntry(WithoutCommentKey(db_entry, comment))
     IN  /\ bibtex_entry' = Some(text)
         /\ written' =
              IF ~IsNone(comment) /\ Val(comment) # << >>
              THEN Some(formatted_comment(Val(comment)) \o << "\n" >> \o text)
              ELSE Some(text)
  /\ UNCHANGED << db_entry, entry_source_comments >>
  /\ UNCHANGED notw

NextWriter == EntryToBibtex

\* --------------------------------------------- the comment before an entry

\* The comment _entry_to_bibtex reads for db_entry (None: absent)
CommentOf ==
  IF ~IsNone(db_entry.source_comment) THEN Val(db_entry.source_comment)
  ELSE IF ~IsNone(db_entry.ID) THEN entry_source_comments[Val(db_entry.ID)]
  ELSE None

\* The text written before the entry's own text and the "\n" that ends it
Leading ==
  SubSeq(Val(written), 1, Len(Val(written)) - Len(Val(bibtex_entry)) - 1)

\* C20: an entry with a non-empty source comment is written as the comment,
\* a "\n" and the entry's text; the comment takes one line per line of the
\* source comment, a line that starts with "%" as it is and any other after
\* "% ".  With no comment or an empty one the entry's text is all that is
\* written.
C20_CommentBeforeEntry ==
  ~IsNone(written) =>
    IF ~IsNone(CommentOf) /\ Val(CommentOf) # << >>
    THEN LET lines == splitlines(Val(CommentOf))
             out == Val(written)
             text == Val(bibtex_entry)
         IN  /\ Len(out) > Len(text)
             /\ SubSeq(out, Len(out) - Len(text) + 1, Len(out)) = text
             /\ out[Len(out) - Len(text)] = "\n"
             /\ Len(SplitChar(Leading, "\n")) = Len(lines)
             /\ \A i \in 1..Len(lines) :
                  LET emitted == SplitChar(Leading, "\n")[i]
                  IN  /\ StartsWith(emitted, << "%" >>)
                      /\ emitted = IF StartsWith(lines[i], << "%" >>)
                                   THEN lines[i]
                                   ELSE << "%", " " >> \o lines[i]
    ELSE written = bibtex_entry

C20_Witness ==
  /\ ~IsNone(written)
  /\ ~IsNone(db_entry.source_comment)
  /\ Val(db_entry.source_comment) = Some(<< "a", "\n", "%" >>)
  /\ Leading = << "%", " ", "a", "\n", "%" >>

\* C25: whatever the reserved key holds in the entry handed to the writer, a
\* comment, the empty string or None, the serializer is not handed the key:
\* the entry's text has no field of that name.
C25_ReservedKeyNotSerialized ==
  ~IsNone(bibtex_entry) =>
    \A i \in 1..Len(Val(bibtex_entry)) :
      Val(bibtex_entry)[i] # ENTRY_SOURCE_COMMENT_KEY

\* --------------------------------------------- strip_latex_code, applied

\* The most pieces a text stripped here is made of
MaxTokens == 3

\* The pieces: the characters strip_latex_code looks for, whitespace, a
\* letter, and command names in lower and mixed case
StripTokens ==
  { << "\\" >>, << "$" >>, << "{" >>, << "}" >>, << " " >>, << "\t" >>,
    << "a" >>, << "h", "a", "t" >>, << "H", "a", "t" >>,
    << "d", "d", "o", "t" >> }

StripTexts ==
  { Concat(tokens) :
      tokens \in UNION { [ 1..k -> StripTokens ] : k \in 0..MaxTokens } }

InitStrip ==
  /\ strip_text \in StripTexts
  /\ strip_once = None
  /\ strip_twice = None

\* strip_latex_code(text)
StripOnce ==
  /\ IsNone(strip_once)
  /\ strip_once' = Some(strip_latex_code(strip_text))
  /\ UNCHANGED << strip_text, strip_twice >>
  /\ UNCHANGED nots

\* strip_latex_code(strip_latex_code(text))
StripTwice ==
  /\ ~IsNone(strip_once)
  /\ IsNone(strip_twice)
  /\ strip_twice' = Some(strip_latex_code(Val(strip_once)))
  /\ UNCHANGED << strip_text, strip_once >>
  /\ UNCHANGED nots

NextStrip == StripOnce \/ StripTwice

\* C26: the stripped text has no "$", backslash or brace and no whitespace
\* at its ends or twice in a row; stripping it again gives it back; and no
\* command is the beginning of another one, so that a segment starts with
\* one command at most and the order in which the set is gone through does
\* not matter.
C26_StripIdempotent ==
  /\ ~IsNone(strip_once) =>
       LET out == Val(strip_once)
       IN  /\ \A i \in 1..Len(out) : out[i] \notin { "$", "\\", "{", "}" }
           /\ out # << >> =>
                (out[1] \notin { " ", "\t", "\n" }
                   /\ out[Len(out)] \notin { " ", "\t", "\n" })
           /\ \A i \in 1..(Len(out) - 1) :
                ~(out[i] \in { " ", "\t", "\n" }
                    /\ out[i + 1] \in { " ", "\t", "\n" })
  /\ ~IsNone(strip_twice) => strip_twice = strip_once
  /\ \A c, d \in LATEX_COMMANDS_TO_REMOVE :
       (c # d /\ Len(c) <= Len(d)) => SubSeq(d, 1, Len(c)) # c
  /\ \A i \in 1..Len(SplitChar(strip_text, "\\")) :
       Cardinality(MatchingCommands(SplitChar(strip_text, "\\")[i])) <= 1

\* "\Hat", then "a": the command goes, in whatever case it is written
C26_Witness ==
  /\ strip_text = << "\\", "H", "a", "t", "a" >>
  /\ strip_once = Some(<< "a" >>)
  /\ strip_twice = Some(<< "a" >>)

\* ------------------------------------------------------ specifications

\* While one lookup's query() is followed, nothing is merged.
QueryOnly ==
  /\ replace = FALSE
  /\ lookups = << >>
  /\ input = [ ID |-> EntryID, fields |-> [ f \in FieldNames |-> None ] ]
  /\ thread = [ name \in LookupNames |-> "done" ]
  /\ result = [ name \in LookupNames |-> None ]
  /\ completed = << >>
  /\ output = None
  /\ only_query = << >>
  /\ main = "exited"
  /\ exit_code = None
  /\ output_file = None
  /\ hits = [ name \in LookupNames |-> 0 ]
  /\ not_found_log = << >>
  /\ multiple_hits_log = << >>

\* While an entry's results are merged, the lookup of SpecQuery stands idle.
MergeOnly ==
  /\ entry = [ title |-> None, doi |-> None, author |-> None ]
  /\ query_doi = TRUE
  /\ query_author_title = TRUE
  /\ query_title = TRUE
  /\ use_latex_stripped_title = FALSE
  /\ latex_retry_attempted = FALSE
  /\ latex_stripped_title = None
  /\ title = None
  /\ doi = None
  /\ authors = None
  /\ result_count = None
  /\ response_status = None
  /\ pc = "idle"
  /\ gen = "returned"
  /\ value = "None"
  /\ ret = "None"
  /\ calls = 0
  /\ log = << >>
  /\ n_retry = 0
  /\ retry_call = 0
  /\ n_retried = 0
  /\ all_empty = TRUE

\* While no entry is written, the writer has its first state.
WriterIdle ==
  /\ db_entry = [ ID |-> None, source_comment |-> None ]
  /\ entry_source_comments = [ id \in EntryIDs |-> None ]
  /\ bibtex_entry = None
  /\ written = None

\* While no batch is dispatched, the dispatcher has nothing to do.
DispatchIdle ==
  /\ concurrency_budget = 1
  /\ populated = [ r \in Records |-> { } ]
  /\ rec = [ r \in Records |-> "done" ]
  /\ op = [ o \in Ops |-> "skipped" ]
  /\ candidate = [ o \in Ops |-> FALSE ]
  /\ queried = { }
  /\ outcomes = [ r \in Records |-> None ]
  /\ batch = "complete"

\* While no text is stripped on its own.
StripIdle ==
  /\ strip_text = << >>
  /\ strip_once = None
  /\ strip_twice = None

InitQueryOnly ==
  InitQuery /\ QueryOnly /\ WriterIdle /\ DispatchIdle /\ StripIdle

InitMergeOnly ==
  InitMerge /\ MergeOnly /\ WriterIdle /\ DispatchIdle /\ StripIdle

InitWriterOnly ==
  InitWriter /\ QueryOnly /\ MergeOnly /\ DispatchIdle /\ StripIdle

InitDispatchOnly ==
  InitDispatch /\ QueryOnly /\ MergeOnly /\ WriterIdle /\ StripIdle

InitStripOnly ==
  InitStrip /\ QueryOnly /\ MergeOnly /\ WriterIdle /\ DispatchIdle

\* The query() calls on one ZbMathLookup instance
SpecQuery == InitQueryOnly /\ [][NextQuery]_vars

\* One entry: its lookups' threads, then update_entry
SpecMerge == InitMergeOnly /\ [][NextMerge]_vars

\* One entry written by BTACBibTexWriter
SpecWriter == InitWriterOnly /\ [][NextWriter]_vars

\* A batch of records dispatched to the lookups
SpecDispatch == InitDispatchOnly /\ [][NextDispatch]_vars

\* The same under a fair scheduler: a step that can be taken is taken
FairSpecDispatch == SpecDispatch /\ WF_vars(NextDispatch)

\* strip_latex_code applied to a text, then to what it returned
SpecStrip == InitStripOnly /\ [][NextStrip]_vars

====
